---- MODULE Spec2Model ----
(***************************************************************************)
(* Veritas 2026: the content cache / fetch orchestration of App, with the  *)
(* part of DevotionalDisplay that edits the displayed record.              *)
(*                                                                         *)
(* React state is modelled as it is committed: an event handler or a       *)
(* promise continuation runs to completion and its state updates are       *)
(* committed together; the passive effect of App that calls                *)
(* loadContent(currentDate) then runs, before any other event, whenever    *)
(* one of its dependencies (currentDate, loadContent and so cache) got a   *)
(* new identity in that commit.                                            *)
(*                                                                         *)
(* The profile part of App (theme, completed dates, SyncStatus) and        *)
(* syncService are modelled in the same way: the auto-sync effect runs     *)
(* after the commit that changed theme, completedDates or                  *)
(* initialLoadComplete, and a rejected save is caught before any other     *)
(* event.  SpecSync runs them; SpecMerge applies mergeProfiles to          *)
(* arbitrary pairs of profiles.                                            *)
(*                                                                         *)
(* SpecSearch applies the searchResults memo to caches of complete         *)
(* records, SpecDay compares the keys of two dates with isSameDay,         *)
(* SpecLookup adds the scripture lookups of DevotionalDisplay to the       *)
(* content part, SpecDated does so with date selection and a devotional    *)
(* of its own for each date, and SpecLive is the content part under        *)
(* fairness, with every fetch answered by a conforming payload.            *)
(***************************************************************************)
EXTENDS Integers, Sequences, FiniteSets, TLC

\* ---------------------------------------------------------------- bounds
MaxDay     == 2   \* the calendar days January 1..MaxDay of 2026 can be selected
MaxSelects == 2   \* dates the user selects during the session
MaxVariant == 1   \* distinct payloads the generative service can answer with
MaxSection == 1   \* sections the user edits, the first ones of SectionOrder
MaxSaves   == 3   \* saves issued during the session (ticks of Date.now())
MaxStamp   == 1   \* lastSyncedAt of the profiles given to mergeProfiles
MaxLookups == 1   \* calls of fetchBibleText in flight for one reference and target

VARIABLES
  currentDate,    \* App: the selected Date
  content,        \* App: the displayed DevotionalContent, or Null
  loadingState,   \* App: LoadingState
  cache,          \* App: Record<string, DevotionalContent>
  pending,        \* calls of fetchDevotionalForDate awaited by loadContent, per date
  effectPending,  \* the dependency whose change makes the loadContent effect run
  editingSection, \* DevotionalDisplay: the section being edited, or NoSection
  failedSince,    \* observer: dates whose fetch failed and were not selected since
  selects,        \* observer: number of dates the user selected
  theme,          \* App: Theme
  completedDates, \* App: string[], the keys of the completed dates
  syncStatus,     \* App: SyncStatus
  initialLoadComplete, \* App
  onLine,         \* navigator.onLine
  localStorage,   \* localStorage.getItem(STORAGE_KEY): NoItem or a text
  saving,         \* persistChanges calls awaiting mockCloudRequest, oldest
                  \* first, each with navigator.onLine as it was at the call
  syncStep,       \* what runs before any other event: the auto-sync effect,
                  \* the continuation of initApp, the catch of persistChanges
  now,            \* Date.now(), in ticks
  lastIssued,     \* observer: outcome of the most recently issued save
  local,          \* mergeProfiles: its first argument
  cloud,          \* mergeProfiles: its second argument
  merged,         \* mergeProfiles: its result, or Null
  cacheOrder,     \* Object.keys(cache): the keys in the order of their insertion
  isSearchMode,   \* App: the search bar is open
  searchQuery,    \* App: the text of the search input
  searchResults,  \* App: the value of the searchResults memo
  d1,             \* isSameDay: its first argument
  d2,             \* isSameDay: its second argument
  compared,       \* the two ways of comparing d1 and d2, or Null
  fullPassageText,    \* DevotionalDisplay: the looked-up passage, NoText or Text(str)
  fetchedRelatedText, \* DevotionalDisplay: the looked-up related verse
  isBibleLoading,     \* DevotionalDisplay
  bibleFetches,       \* calls of fetchBibleText awaited, per target and reference
  lookedUp            \* observer: per target, the reference whose lookup set the
                      \* text last, NoText after the texts were reset

contentVars == <<currentDate, content, loadingState, cache, cacheOrder, pending,
                 effectPending, editingSection, failedSince, selects>>

profileVars == <<theme, completedDates, syncStatus, initialLoadComplete, onLine,
                 localStorage, saving, syncStep, now, lastIssued>>

mergeVars == <<local, cloud, merged>>

searchVars == <<isSearchMode, searchQuery, searchResults>>

dayVars == <<d1, d2, compared>>

bibleVars == <<fullPassageText, fetchedRelatedText, isBibleLoading, bibleFetches,
               lookedUp>>

vars == <<contentVars, profileVars, mergeVars, searchVars, dayVars, bibleVars>>

\* ------------------------------------------------------------ types.ts
Null == << >>
NoSection == "null"

LoadingState == {"IDLE", "LOADING", "SUCCESS", "ERROR"}

RequiredFields == {"passageReference", "scriptureText", "reflection",
                   "morningPrayer", "eveningPrayer", "quote", "quoteAuthor",
                   "relatedVerseReference", "relatedVerseText"}

DevotionalContentFields == {"date"} \cup RequiredFields
                             \cup {"customPassageText", "customRelatedVerseText"}

Sections == {"reflection", "morningPrayer", "eveningPrayer", "passageText",
             "relatedVerse"}

\* the sections in the order in which the bound MaxSection admits them
SectionOrder == <<"passageText", "morningPrayer", "reflection", "eveningPrayer",
                  "relatedVerse">>

EditedSections == {SectionOrder[i] : i \in 1..MaxSection}

\* ------------------------------------------------------------ Date
\* Dates made by the calendar grid and by the initial state: local midnight.
MkDate(y, m, d) == [year |-> y, month |-> m, date |-> d]

Dates == {MkDate(2026, 0, d) : d \in 1..MaxDay}

DaysBeforeMonth == <<0, 31, 59, 90, 120, 151, 181, 212, 243, 273, 304, 334>>

\* Date.prototype.getDay for a day of 2026 (January 1, 2026 is a Thursday)
getDay(date) == (4 + DaysBeforeMonth[date.month + 1] + date.date - 1) % 7

DayShort == <<"Sun", "Mon", "Tue", "Wed", "Thu", "Fri", "Sat">>
DayLong == <<"Sunday", "Monday", "Tuesday", "Wednesday", "Thursday", "Friday",
             "Saturday">>
MonthShort == <<"Jan", "Feb", "Mar", "Apr", "May", "Jun", "Jul", "Aug", "Sep",
                "Oct", "Nov", "Dec">>
months == <<"January", "February", "March", "April", "May", "June", "July",
            "August", "September", "October", "November", "December">>

Pad2(n) == IF n < 10 THEN "0" \o ToString(n) ELSE ToString(n)

\* Date.prototype.toDateString: "Thu Jan 01 2026"
toDateString(date) ==
  DayShort[getDay(date) + 1] \o " " \o MonthShort[date.month + 1] \o " "
    \o Pad2(date.date) \o " " \o ToString(date.year)

\* formatDateFull: "Thursday, January 1, 2026"
formatDateFull(date) ==
  DayLong[getDay(date) + 1] \o ", " \o months[date.month + 1] \o " "
    \o ToString(date.date) \o ", " \o ToString(date.year)

\* a Date with a time of day, as `new Date()` makes it
MkDateTime(y, m, d, h) == [year |-> y, month |-> m, date |-> d, hours |-> h]

Hours == {0, 12, 23}

DateTimes == {MkDateTime(2026, m, d, h) : m \in 0..1, d \in 1..MaxDay, h \in Hours}

\* isSameDay that does not look at the month
isSameDay_IgnoresMonth(a, b) == a.year = b.year /\ a.date = b.date

\* dateUtils.isSameDay
isSameDay(a, b) ==
  a.year = b.year /\ a.month = b.month /\ a.date = b.date

DayIdle ==
  /\ d1 = MkDateTime(2026, 0, 1, 0)
  /\ d2 = MkDateTime(2026, 0, 1, 0)
  /\ compared = Null

\* CalendarView, a cell of the grid: the key of a date is looked up
\* (`completedDates.includes(date.toDateString())`, `cache[key]`) and the
\* date is compared with isSameDay
compareDays ==
  /\ compared = Null
  /\ compared' = [sameKey |-> toDateString(d1) = toDateString(d2),
                  isSameDay |-> isSameDay(d1, d2)]
  /\ UNCHANGED <<d1, d2>>
  /\ UNCHANGED <<contentVars, profileVars, mergeVars, searchVars, bibleVars>>

\* ------------------------------------------------------------ objects
\* { ...a, ...b }
Spread(a, b) ==
  [f \in (DOMAIN a) \cup (DOMAIN b) |-> IF f \in DOMAIN b THEN b[f] ELSE a[f]]

\* { ...prev, [key]: value }
WithKey(prev, key, value) ==
  [k \in (DOMAIN prev) \cup {key} |-> IF k = key THEN value ELSE prev[k]]

\* Object.keys after `{ ...prev, [key]: value }`: a new key comes last
KeysWith(keys, key) ==
  IF \E i \in DOMAIN keys : keys[i] = key THEN keys ELSE Append(keys, key)

\* ------------------------------------------------------------ geminiService
Variants == 1..MaxVariant

\* the payloads a text of the service can denote: those of Variants, and for
\* a service whose answer depends on the date it is asked for, one per day
Payloads == Variants \cup {date.date : date \in Dates}

\* the object a schema-conforming answer of the generative service denotes
AiObject(v) ==
  [passageReference      |-> "Genesis " \o ToString(v),
   scriptureText         |-> "scripture " \o ToString(v),
   reflection            |-> "reflection " \o ToString(v),
   morningPrayer         |-> "morning " \o ToString(v),
   eveningPrayer         |-> "evening " \o ToString(v),
   quote                 |-> "quote " \o ToString(v),
   quoteAuthor           |-> "author " \o ToString(v),
   relatedVerseReference |-> "John " \o ToString(v),
   relatedVerseText      |-> "verse " \o ToString(v)]

JsonText(v) == "{devotional " \o ToString(v) \o "}"

\* what ai.models.generateContent can do: reject, or answer with a text
Responses ==
  {[rejected |-> TRUE, text |-> ""]}
    \cup {[rejected |-> FALSE, text |-> t] :
            t \in {"", "<html>"} \cup {JsonText(v) : v \in Variants}}

\* an answer that is JSON but leaves out a field the schema requires
IncompleteFields == RequiredFields \ {"reflection"}
IncompleteObject == [f \in IncompleteFields |-> AiObject(1)[f]]
IncompleteJsonText == "{devotional without reflection}"

\* the answers of a service that does not honour responseSchema
UncheckedResponses ==
  Responses \cup {[rejected |-> FALSE, text |-> IncompleteJsonText]}

Throw == [threw |-> TRUE]
Return(x) == [threw |-> FALSE, value |-> x]

\* a parse that answers an empty object for a text that is not JSON
JSONParse_Lenient(text) ==
  IF \E v \in Payloads : JsonText(v) = text
    THEN Return(AiObject(CHOOSE v \in Payloads : JsonText(v) = text))
    ELSE IF text = IncompleteJsonText THEN Return(IncompleteObject)
    ELSE Return(<< >>)

\* JSON.parse
JSONParse(text) ==
  IF \E v \in Payloads : JsonText(v) = text
    THEN Return(AiObject(CHOOSE v \in Payloads : JsonText(v) = text))
    ELSE IF text = IncompleteJsonText THEN Return(IncompleteObject)
    ELSE Throw

fetchDevotionalForDate(dateStr, resp) ==
  IF resp.rejected THEN Throw
  ELSE IF resp.text = "" THEN Throw
  ELSE LET data == JSONParse(resp.text)
       IN  IF data.threw THEN Throw
           ELSE Return(Spread([date |-> dateStr], data.value))

\* ------------------------------------------------------------ App
isLoading(ls) == ls = "LOADING"

\* cache[key]
cacheGet(c, key) == IF key \in DOMAIN c THEN c[key] ELSE Null

\* the cache is never consulted
CacheHit_Never(c, key) == FALSE

\* loadContent: `if (cache[key])`
CacheHit(c, key) == cacheGet(c, key) # Null

\* DevotionalDisplay, effect on [content, isLoading]: a new content object
\* or a change of isLoading, with content present and not loading, closes
\* the edit form.
DisplayEffect(newObject, ls0, c1, ls1, section) ==
  IF (newObject \/ isLoading(ls0) # isLoading(ls1)) /\ c1 # Null /\ ~isLoading(ls1)
    THEN NoSection
    ELSE section

ContentAtMount ==
  /\ currentDate = MkDate(2026, 0, 1)
  /\ content = Null
  /\ loadingState = "IDLE"
  /\ cache = << >>
  /\ cacheOrder = << >>
  /\ pending = [d \in Dates |-> 0]
  /\ effectPending = "currentDate"
  /\ editingSection = NoSection
  /\ failedSince = {}
  /\ selects = 0

\* ------------------------------------------------------------ UserProfile
Themes == {"light", "sepia", "dark"}

SyncStatus == {"synced", "syncing", "offline", "error"}

Profile(t, dates, at) ==
  [preferences |-> [theme |-> t],
   progress |-> [completedDates |-> dates],
   lastSyncedAt |-> at]

STORAGE_KEY == "lumina_user_profile"

defaultProfile == Profile("light", << >>, 0)

\* the keys completedDates can hold
DateKeys == {toDateString(date) : date \in Dates}

\* arrays of date keys
KeyArrays == UNION {[1..n -> DateKeys] : n \in 0..MaxDay}

\* arrays of date keys without a repeated key, as toggleComplete makes them
KeyLists == {a \in KeyArrays : \A i, j \in DOMAIN a : a[i] = a[j] => i = j}

\* ------------------------------------------------------------ JSON
Quote(str) == "'" \o str \o "'"

RECURSIVE JoinKeys(_)
JoinKeys(a) ==
  IF a = << >> THEN ""
  ELSE IF Len(a) = 1 THEN Quote(a[1])
  ELSE Quote(Head(a)) \o "," \o JoinKeys(Tail(a))

\* JSON.stringify of a UserProfile
JSONStringify(p) ==
  "{preferences:{theme:" \o Quote(p.preferences.theme)
    \o "},progress:{completedDates:[" \o JoinKeys(p.progress.completedDates)
    \o "]},lastSyncedAt:" \o ToString(p.lastSyncedAt) \o "}"

\* the profiles whose JSON text a session can find or leave in the storage
StoredProfiles ==
  {Profile(t, a, at) : t \in Themes, a \in KeyLists, at \in 0..MaxSaves}

\* a stored text that is JSON but not a profile, and one that is not JSON
EmptyObjectText == "{}"
GarbageText == "lumina%%"

\* JSON.parse of a stored text
JSONParseProfile(text) ==
  IF \E p \in StoredProfiles : JSONStringify(p) = text
    THEN Return(CHOOSE p \in StoredProfiles : JSONStringify(p) = text)
    ELSE IF text = EmptyObjectText THEN Return(<< >>)
    ELSE Throw

\* what an earlier session left in the storage
EarlierProfile == Profile("dark", <<toDateString(MkDate(2026, 0, 1))>>, 0)

Storages ==
  {<< >>} \cup {WithKey(<< >>, STORAGE_KEY, text) :
                   text \in {GarbageText, EmptyObjectText,
                             JSONStringify(EarlierProfile)}}

ProfileAtMount(ol, storage, t) ==
  /\ theme = "light"
  /\ completedDates = << >>
  /\ syncStatus = "synced"
  /\ initialLoadComplete = FALSE
  /\ onLine = ol
  /\ localStorage = storage
  /\ saving = << >>
  /\ syncStep = "effect"
  /\ now = t
  /\ lastIssued = "none"

MergeIdle ==
  /\ local = defaultProfile
  /\ cloud = defaultProfile
  /\ merged = Null

\* ------------------------------------------------------------ String
\* the UTF-16 code units of the strings that are searched and searched for
CodeUnits(str) ==
  CASE str = ""       -> << >>
    [] str = " "      -> <<" ">>
    [] str = "Amen"   -> <<"A", "m", "e", "n">>
    [] str = "Grace"  -> <<"G", "r", "a", "c", "e">>
    [] str = "grace"  -> <<"g", "r", "a", "c", "e">>
    [] str = "GRACE"  -> <<"G", "R", "A", "C", "E">>
    [] str = "race"   -> <<"r", "a", "c", "e">>
    [] str = "Grace " -> <<"G", "r", "a", "c", "e", " ">>
    [] str = "amen"   -> <<"a", "m", "e", "n">>

UpperCase == <<"A", "B", "C", "D", "E", "F", "G", "H", "I", "J", "K", "L", "M",
               "N", "O", "P", "Q", "R", "S", "T", "U", "V", "W", "X", "Y", "Z">>
LowerCase == <<"a", "b", "c", "d", "e", "f", "g", "h", "i", "j", "k", "l", "m",
               "n", "o", "p", "q", "r", "s", "t", "u", "v", "w", "x", "y", "z">>

WhiteSpace == {" ", "\t", "\n"}

\* a toLowerCase that leaves the text as it is
toLowerCase_Identity(units) == units

\* String.prototype.toLowerCase
toLowerCase(units) ==
  [i \in DOMAIN units |->
     IF \E n \in DOMAIN UpperCase : UpperCase[n] = units[i]
       THEN LowerCase[CHOOSE n \in DOMAIN UpperCase : UpperCase[n] = units[i]]
       ELSE units[i]]

\* String.prototype.trim
RECURSIVE trim(_)
trim(units) ==
  IF units = << >> THEN << >>
  ELSE IF Head(units) \in WhiteSpace THEN trim(Tail(units))
  ELSE IF units[Len(units)] \in WhiteSpace
         THEN trim(SubSeq(units, 1, Len(units) - 1))
  ELSE units

\* String.prototype.includes
includes(units, searchUnits) ==
  \E start \in 0..(Len(units) - Len(searchUnits)) :
    SubSeq(units, start + 1, start + Len(searchUnits)) = searchUnits

\* ------------------------------------------------------------ App, search
\* Object.values(cache)
ObjectValues(c, keys) == [i \in DOMAIN keys |-> c[keys[i]]]

MS_PER_DAY == 86400000

\* new Date(item.date): the date whose formatDateFull text is parsed
DateParse(text) == CHOOSE date \in Dates : formatDateFull(date) = text

\* Date.prototype.getTime, counted from the local midnight of January 1, 2026
getTime(date) == MS_PER_DAY * (DaysBeforeMonth[date.month + 1] + date.date - 1)

\* Array.prototype.sort with (a, b) => new Date(a.date).getTime() -
\* new Date(b.date).getTime(); the sort is stable
RECURSIVE sortByDate(_)
sortByDate(items) ==
  IF items = << >> THEN << >>
  ELSE LET sorted == sortByDate(SubSeq(items, 1, Len(items) - 1))
           last == items[Len(items)]
           before == Cardinality({i \in DOMAIN sorted :
                        getTime(DateParse(sorted[i].date))
                          <= getTime(DateParse(last.date))})
       IN  SubSeq(sorted, 1, before) \o <<last>>
             \o SubSeq(sorted, before + 1, Len(sorted))

\* `item.f.toLowerCase().includes(lowerQuery)`
fieldIncludes(item, f, lowerQuery) ==
  includes(toLowerCase(CodeUnits(item[f])), lowerQuery)

\* `item.f && item.f.toLowerCase().includes(lowerQuery)`
optionalFieldIncludes(item, f, lowerQuery) ==
  IF f \in DOMAIN item /\ item[f] # ""
    THEN fieldIncludes(item, f, lowerQuery)
    ELSE FALSE

\* the predicate given to filter
itemMatches(item, lowerQuery) ==
  \/ fieldIncludes(item, "passageReference", lowerQuery)
  \/ fieldIncludes(item, "scriptureText", lowerQuery)
  \/ fieldIncludes(item, "reflection", lowerQuery)
  \/ fieldIncludes(item, "morningPrayer", lowerQuery)
  \/ fieldIncludes(item, "eveningPrayer", lowerQuery)
  \/ optionalFieldIncludes(item, "relatedVerseReference", lowerQuery)
  \/ optionalFieldIncludes(item, "relatedVerseText", lowerQuery)

\* a memo without the test for a blank query
searchResultsOf_NoBlankGuard(c, keys, query) ==
  LET lowerQuery == toLowerCase(CodeUnits(query))
  IN  sortByDate(SelectSeq(ObjectValues(c, keys),
                           LAMBDA item : itemMatches(item, lowerQuery)))

\* a memo that leaves the matches in the order of Object.values
searchResultsOf_Unsorted(c, keys, query) ==
  IF trim(CodeUnits(query)) = << >> THEN << >>
  ELSE LET lowerQuery == toLowerCase(CodeUnits(query))
       IN  SelectSeq(ObjectValues(c, keys),
                     LAMBDA item : itemMatches(item, lowerQuery))

\* the searchResults memo
searchResultsOf(c, keys, query) ==
  IF trim(CodeUnits(query)) = << >> THEN << >>
  ELSE LET lowerQuery == toLowerCase(CodeUnits(query))
       IN  sortByDate(SelectSeq(ObjectValues(c, keys),
                                LAMBDA item : itemMatches(item, lowerQuery)))

SearchAtMount ==
  /\ isSearchMode = FALSE
  /\ searchQuery = ""
  /\ searchResults = searchResultsOf(cache, cacheOrder, searchQuery)

\* the button "Search history"
toggleSearchMode ==
  /\ effectPending = "none"
  /\ isSearchMode' = ~isSearchMode
  /\ UNCHANGED <<searchQuery, searchResults>>
  /\ UNCHANGED <<contentVars, profileVars, mergeVars, dayVars, bibleVars>>

\* what the user types into the search input
SearchQueries == {"", " ", "grace", "GRACE", "race", "Grace ", "amen"}

\* the search input's onChange, and the memo of the render that follows
handleSearchChange(query) ==
  /\ effectPending = "none"
  /\ isSearchMode
  /\ searchQuery' = query
  /\ searchResults' = searchResultsOf(cache, cacheOrder, query)
  /\ UNCHANGED isSearchMode
  /\ UNCHANGED <<contentVars, profileVars, mergeVars, dayVars, bibleVars>>

\* ------------------------------------------------------------ DevotionalDisplay, scripture lookup
\* `string | null`
NoText == << >>
Text(str) == <<str>>

\* the strings of the String section
Strings == {"", " ", "Amen", "Grace", "grace", "GRACE", "race", "Grace ", "amen"}

\* the string of a sequence of code units
FromCodeUnits(units) == CHOOSE str \in Strings : CodeUnits(str) = units

\* what is looked up: the passage of the content (handleFetchPassage) or its
\* related verse (the effect on [content, isLoading])
BibleTargets == {"passage", "related"}

References ==
  {AiObject(v).passageReference : v \in Payloads}
    \cup {AiObject(v).relatedVerseReference : v \in Payloads}

Lookup(target, reference) == [target |-> target, reference |-> reference]

BibleLookups == {Lookup(t, r) : t \in BibleTargets, r \in References}

\* response.json(): it throws, or answers an object with or without text
BibleBodies ==
  {Throw, Return(<< >>), Return([text |-> ""]), Return([text |-> " "]),
   Return([text |-> "Grace "])}

\* what fetch(`https://bible-api.com/...`) can do: reject, or answer
BibleResponses ==
  {[rejected |-> TRUE, ok |-> FALSE, json |-> Throw]}
    \cup {[rejected |-> FALSE, ok |-> FALSE, json |-> b] :
            b \in {Throw, Return([text |-> "Grace "])}}
    \cup {[rejected |-> FALSE, ok |-> TRUE, json |-> b] : b \in BibleBodies}

\* a lookup that reads the body of a response that is not OK
fetchBibleText_NoOkCheck(response) ==
  IF response.rejected THEN NoText
  ELSE IF response.json.threw THEN NoText
  ELSE LET data == response.json.value
       IN  IF "text" \in DOMAIN data /\ data.text # ""
             THEN Text(FromCodeUnits(trim(CodeUnits(data.text))))
             ELSE NoText

\* fetchBibleText
fetchBibleText(response) ==
  IF response.rejected THEN NoText
  ELSE IF ~response.ok THEN NoText
  ELSE IF response.json.threw THEN NoText
  ELSE LET data == response.json.value
       IN  IF "text" \in DOMAIN data /\ data.text # ""
             THEN Text(FromCodeUnits(trim(CodeUnits(data.text))))
             ELSE NoText

\* one more call of fetchBibleText is awaited; at most MaxLookups calls for
\* one reference and target are followed
Issue(fetches, lookup) ==
  [fetches EXCEPT ![lookup] = IF @ < MaxLookups THEN @ + 1 ELSE @]

BibleAtMount ==
  /\ fullPassageText = NoText
  /\ fetchedRelatedText = NoText
  /\ isBibleLoading = FALSE
  /\ bibleFetches = [l \in BibleLookups |-> 0]
  /\ lookedUp = [t \in BibleTargets |-> NoText]

\* DevotionalDisplay, effect on [content, isLoading], the looked-up texts:
\* with content present and not loading they are reset and the related
\* verse is looked up; while loading they are cleared.
BibleEffect(newObject, ls0, c1, ls1) ==
  IF ~(newObject \/ isLoading(ls0) # isLoading(ls1))
    THEN UNCHANGED bibleVars
  ELSE IF c1 # Null /\ ~isLoading(ls1)
    THEN /\ fullPassageText' = NoText
         /\ fetchedRelatedText' = NoText
         /\ isBibleLoading' = FALSE
         /\ bibleFetches' =
              IF "relatedVerseReference" \in DOMAIN c1
                THEN Issue(bibleFetches, Lookup("related", c1.relatedVerseReference))
                ELSE bibleFetches
         /\ lookedUp' = [t \in BibleTargets |-> NoText]
  ELSE IF isLoading(ls1)
    THEN /\ fullPassageText' = NoText
         /\ fetchedRelatedText' = NoText
         /\ lookedUp' = [t \in BibleTargets |-> NoText]
         /\ UNCHANGED <<isBibleLoading, bibleFetches>>
  ELSE UNCHANGED bibleVars

Init ==
  /\ ContentAtMount
  /\ ProfileAtMount(TRUE, << >>, 0)
  /\ MergeIdle
  /\ SearchAtMount
  /\ DayIdle
  /\ BibleAtMount

\* a date of the calendar grid is clicked
handleDateSelect(date) ==
  /\ effectPending = "none"
  /\ selects < MaxSelects
  /\ selects' = selects + 1
  /\ currentDate' = date
  /\ effectPending' = "currentDate"
  /\ failedSince' = failedSince \ {date}
  /\ isSearchMode' = FALSE
  /\ searchQuery' = ""
  /\ searchResults' = searchResultsOf(cache, cacheOrder, "")
  /\ UNCHANGED <<content, loadingState, cache, cacheOrder, pending, editingSection>>
  /\ UNCHANGED <<profileVars, mergeVars, dayVars, bibleVars>>

\* useEffect(() => loadContent(currentDate), [currentDate, loadContent]),
\* up to the await of loadContent
loadContentEffect ==
  /\ effectPending # "none"
  /\ effectPending' = "none"
  /\ LET key == toDateString(currentDate)
     IN  IF CacheHit(cache, key)
           THEN /\ content' = cacheGet(cache, key)
                /\ loadingState' = "SUCCESS"
                /\ pending' = pending
           ELSE /\ loadingState' = "LOADING"
                /\ pending' = [pending EXCEPT ![currentDate] = @ + 1]
                /\ content' = content
  /\ editingSection' = DisplayEffect(content' # content, loadingState, content',
                                     loadingState', editingSection)
  /\ BibleEffect(content' # content, loadingState, content', loadingState')
  /\ UNCHANGED <<currentDate, cache, cacheOrder, failedSince, selects>>
  /\ UNCHANGED <<profileVars, mergeVars, dayVars, searchVars>>

\* the fulfilled fetch is cached but not displayed
loadContentResolved_NoDisplay(date, resp) ==
  /\ effectPending = "none"
  /\ pending[date] > 0
  /\ LET r == fetchDevotionalForDate(formatDateFull(date), resp)
     IN  /\ ~r.threw
         /\ cache' = WithKey(cache, toDateString(date), r.value)
         /\ cacheOrder' = KeysWith(cacheOrder, toDateString(date))
  /\ loadingState' = "SUCCESS"
  /\ pending' = [pending EXCEPT ![date] = @ - 1]
  /\ effectPending' = "loadContent"
  /\ UNCHANGED <<currentDate, content, editingSection, failedSince, selects>>
  /\ searchResults' = searchResultsOf(cache', cacheOrder', searchQuery)
  /\ UNCHANGED <<isSearchMode, searchQuery>>
  /\ UNCHANGED <<profileVars, mergeVars, dayVars, bibleVars>>

\* the fulfilled fetch is cached under the key of the date selected at
\* completion time
loadContentResolved_CurrentKey(date, resp) ==
  /\ effectPending = "none"
  /\ pending[date] > 0
  /\ LET r == fetchDevotionalForDate(formatDateFull(date), resp)
     IN  /\ ~r.threw
         /\ cache' = WithKey(cache, toDateString(currentDate), r.value)
         /\ cacheOrder' = KeysWith(cacheOrder, toDateString(currentDate))
         /\ content' = r.value
  /\ loadingState' = "SUCCESS"
  /\ pending' = [pending EXCEPT ![date] = @ - 1]
  /\ effectPending' = "loadContent"
  /\ editingSection' = DisplayEffect(TRUE, loadingState, content', loadingState',
                                     editingSection)
  /\ BibleEffect(TRUE, loadingState, content', loadingState')
  /\ UNCHANGED <<currentDate, failedSince, selects>>
  /\ searchResults' = searchResultsOf(cache', cacheOrder', searchQuery)
  /\ UNCHANGED <<isSearchMode, searchQuery>>
  /\ UNCHANGED <<profileVars, mergeVars, dayVars>>

\* loadContent after the await, the fetch fulfilled
loadContentResolved(date, resp) ==
  /\ effectPending = "none"
  /\ pending[date] > 0
  /\ LET r == fetchDevotionalForDate(formatDateFull(date), resp)
     IN  /\ ~r.threw
         /\ cache' = WithKey(cache, toDateString(date), r.value)
         /\ cacheOrder' = KeysWith(cacheOrder, toDateString(date))
         /\ content' = r.value
  /\ loadingState' = "SUCCESS"
  /\ pending' = [pending EXCEPT ![date] = @ - 1]
  /\ effectPending' = "loadContent"
  /\ editingSection' = DisplayEffect(TRUE, loadingState, content', loadingState',
                                     editingSection)
  /\ BibleEffect(TRUE, loadingState, content', loadingState')
  /\ UNCHANGED <<currentDate, failedSince, selects>>
  /\ searchResults' = searchResultsOf(cache', cacheOrder', searchQuery)
  /\ UNCHANGED <<isSearchMode, searchQuery>>
  /\ UNCHANGED <<profileVars, mergeVars, dayVars>>

\* loadContent after the await, the fetch threw
loadContentFailed(date, resp) ==
  /\ effectPending = "none"
  /\ pending[date] > 0
  /\ fetchDevotionalForDate(formatDateFull(date), resp).threw
  /\ loadingState' = "ERROR"
  /\ pending' = [pending EXCEPT ![date] = @ - 1]
  /\ failedSince' = failedSince \cup {date}
  /\ editingSection' = DisplayEffect(FALSE, loadingState, content, loadingState',
                                     editingSection)
  /\ BibleEffect(FALSE, loadingState, content, loadingState')
  /\ UNCHANGED <<currentDate, content, cache, cacheOrder, effectPending, selects>>
  /\ UNCHANGED <<profileVars, mergeVars, dayVars, searchVars>>

\* ------------------------------------------------------------ DevotionalDisplay
\* texts the user can leave in the edit form's textarea (tempText)
EditTexts == {"my words"}

\* the page with the sections is rendered (neither the error page nor the
\* empty-state page)
SectionsRendered ==
  loadingState # "ERROR" /\ (isLoading(loadingState) \/ content # Null)

\* the Edit button of a section is rendered
EditButtonRendered(section) ==
  /\ SectionsRendered
  /\ ~isLoading(loadingState)
  /\ IF section \in {"morningPrayer", "eveningPrayer"}
       THEN editingSection = NoSection
       ELSE editingSection # section

\* the Save / Cancel buttons of the section being edited are rendered
SaveButtonRendered ==
  /\ SectionsRendered
  /\ editingSection # NoSection
  /\ editingSection \in {"morningPrayer", "eveningPrayer"} => ~isLoading(loadingState)

startEditing(section) ==
  /\ effectPending = "none"
  /\ EditButtonRendered(section)
  /\ editingSection' = section
  /\ UNCHANGED <<currentDate, content, loadingState, cache, cacheOrder, pending,
                 effectPending, failedSince, selects>>
  /\ UNCHANGED <<profileVars, mergeVars, dayVars, bibleVars, searchVars>>

cancelEdit ==
  /\ effectPending = "none"
  /\ SaveButtonRendered
  /\ editingSection' = NoSection
  /\ UNCHANGED <<currentDate, content, loadingState, cache, cacheOrder, pending,
                 effectPending, failedSince, selects>>
  /\ UNCHANGED <<profileVars, mergeVars, dayVars, bibleVars, searchVars>>

\* the field of DevotionalContent a section's edit is saved to
SectionField(section) ==
  CASE section = "reflection"    -> "reflection"
    [] section = "morningPrayer" -> "morningPrayer"
    [] section = "eveningPrayer" -> "eveningPrayer"
    [] section = "passageText"   -> "customPassageText"
    [] section = "relatedVerse"  -> "customRelatedVerseText"

\* saveEdit: `update = { <field>: tempText }`
SectionUpdate(section, tempText) ==
  [f \in {SectionField(section)} |-> tempText]

\* the update replaces the record instead of being merged into it
handleContentUpdate_Replace(updatedFields) ==
  IF content = Null
    THEN UNCHANGED <<content, cache, cacheOrder, effectPending>>
    ELSE /\ content' = updatedFields
         /\ cache' = WithKey(cache, toDateString(currentDate), updatedFields)
         /\ cacheOrder' = KeysWith(cacheOrder, toDateString(currentDate))
         /\ effectPending' = "loadContent"

\* App.handleContentUpdate
handleContentUpdate(updatedFields) ==
  IF content = Null
    THEN UNCHANGED <<content, cache, cacheOrder, effectPending>>
    ELSE LET updatedContent == Spread(content, updatedFields)
         IN  /\ content' = updatedContent
             /\ cache' = WithKey(cache, toDateString(currentDate), updatedContent)
             /\ cacheOrder' = KeysWith(cacheOrder, toDateString(currentDate))
             /\ effectPending' = "loadContent"

saveEdit(tempText) ==
  /\ effectPending = "none"
  /\ SaveButtonRendered
  /\ handleContentUpdate(SectionUpdate(editingSection, tempText))
  /\ editingSection' = NoSection
  /\ BibleEffect(content # Null, loadingState, content', loadingState)
  /\ UNCHANGED <<currentDate, loadingState, pending, failedSince, selects>>
  /\ searchResults' = searchResultsOf(cache', cacheOrder', searchQuery)
  /\ UNCHANGED <<isSearchMode, searchQuery>>
  /\ UNCHANGED <<profileVars, mergeVars, dayVars>>

\* the Refresh button of the passage: handleFetchPassage up to its await
handleFetchPassage ==
  /\ effectPending = "none"
  /\ SectionsRendered
  /\ ~isLoading(loadingState)
  /\ content # Null
  /\ "passageReference" \in DOMAIN content
  /\ LET lookup == Lookup("passage", content.passageReference)
     IN  /\ bibleFetches[lookup] < MaxLookups
         /\ bibleFetches' = Issue(bibleFetches, lookup)
  /\ isBibleLoading' = TRUE
  /\ UNCHANGED <<fullPassageText, fetchedRelatedText, lookedUp>>
  /\ UNCHANGED <<contentVars, profileVars, mergeVars, searchVars, dayVars>>

\* handleFetchPassage after its await
handleFetchPassageResolved(reference, response) ==
  /\ effectPending = "none"
  /\ bibleFetches[Lookup("passage", reference)] > 0
  /\ bibleFetches' = [bibleFetches EXCEPT ![Lookup("passage", reference)] = @ - 1]
  /\ fullPassageText' = fetchBibleText(response)
  /\ isBibleLoading' = FALSE
  /\ lookedUp' = [lookedUp EXCEPT !.passage = Text(reference)]
  /\ UNCHANGED fetchedRelatedText
  /\ UNCHANGED <<contentVars, profileVars, mergeVars, searchVars, dayVars>>

\* the effect on [content, isLoading]: `.then(text => setFetchedRelatedText(text))`
relatedTextResolved(reference, response) ==
  /\ effectPending = "none"
  /\ bibleFetches[Lookup("related", reference)] > 0
  /\ bibleFetches' = [bibleFetches EXCEPT ![Lookup("related", reference)] = @ - 1]
  /\ fetchedRelatedText' = fetchBibleText(response)
  /\ lookedUp' = [lookedUp EXCEPT !.related = Text(reference)]
  /\ UNCHANGED <<fullPassageText, isBibleLoading>>
  /\ UNCHANGED <<contentVars, profileVars, mergeVars, searchVars, dayVars>>

\* ------------------------------------------------------------ syncService
\* loadData
loadData(storage, getItemThrows) ==
  IF getItemThrows THEN defaultProfile
  ELSE IF STORAGE_KEY \notin DOMAIN storage THEN defaultProfile
  ELSE IF storage[STORAGE_KEY] = "" THEN defaultProfile
  ELSE LET parsed == JSONParseProfile(storage[STORAGE_KEY])
       IN  IF parsed.threw THEN defaultProfile ELSE parsed.value

\* saveData, step 1: the storage after localStorage.setItem
saveData(storage, profile, t) ==
  WithKey(storage, STORAGE_KEY,
          JSONStringify(Spread(profile, [lastSyncedAt |-> t])))

\* ------------------------------------------------------------ App, profile
\* initApp after `await syncService.loadData()`.  The effects of the first
\* commit ran before it; the one that registers the connectivity listeners
\* set 'offline' if navigator.onLine was false.
initApp(getItemThrows) ==
  /\ syncStep = "initApp"
  /\ LET profile == loadData(localStorage, getItemThrows)
         mounted == IF ~onLine THEN "offline" ELSE syncStatus
     IN  IF "progress" \notin DOMAIN profile
           THEN /\ UNCHANGED <<completedDates, theme>>
                /\ syncStatus' = "error"
         ELSE IF "preferences" \notin DOMAIN profile
           THEN /\ completedDates' = profile.progress.completedDates
                /\ UNCHANGED theme
                /\ syncStatus' = "error"
         ELSE /\ completedDates' = profile.progress.completedDates
              /\ theme' = profile.preferences.theme
              /\ syncStatus' = mounted
  /\ initialLoadComplete' = TRUE
  /\ syncStep' = "effect"
  /\ UNCHANGED <<onLine, localStorage, saving, now, lastIssued>>
  /\ UNCHANGED <<contentVars, mergeVars, dayVars, bibleVars, searchVars>>

\* a persistChanges that skips the save while connectivity is absent
persistChanges_OnlineOnly(newTheme, newCompletedDates, setItemThrows) ==
  /\ syncStatus' = IF ~onLine THEN "offline" ELSE "syncing"
  /\ now' = now + 1
  /\ IF setItemThrows
       THEN /\ syncStep' = "rejected"
            /\ lastIssued' = "failed"
            /\ UNCHANGED <<localStorage, saving>>
       ELSE /\ localStorage' = IF onLine
                                 THEN saveData(localStorage,
                                               Profile(newTheme, newCompletedDates, now'),
                                               now')
                                 ELSE localStorage
            /\ saving' = Append(saving, [onLine |-> onLine])
            /\ syncStep' = "none"
            /\ lastIssued' = "succeeded"

\* persistChanges up to `await syncService.saveData(...)`
persistChanges(newTheme, newCompletedDates, setItemThrows) ==
  /\ syncStatus' = IF ~onLine THEN "offline" ELSE "syncing"
  /\ now' = now + 1
  /\ IF setItemThrows
       THEN /\ syncStep' = "rejected"
            /\ lastIssued' = "failed"
            /\ UNCHANGED <<localStorage, saving>>
       ELSE /\ localStorage' = saveData(localStorage,
                                       Profile(newTheme, newCompletedDates, now'),
                                       now')
            /\ saving' = Append(saving, [onLine |-> onLine])
            /\ syncStep' = "none"
            /\ lastIssued' = "succeeded"

\* an auto-sync effect that saves without waiting for the initial load
autoSyncEffect_NoLoadGuard(setItemThrows) ==
  /\ syncStep = "effect"
  /\ persistChanges(theme, completedDates, setItemThrows)
  /\ UNCHANGED <<theme, completedDates, initialLoadComplete, onLine>>
  /\ UNCHANGED <<contentVars, mergeVars, dayVars, bibleVars, searchVars>>

\* useEffect(..., [theme, completedDates, initialLoadComplete, persistChanges])
autoSyncEffect(setItemThrows) ==
  /\ syncStep = "effect"
  /\ IF ~initialLoadComplete
       THEN /\ syncStep' = "initApp"
            /\ UNCHANGED <<syncStatus, now, lastIssued, localStorage, saving>>
       ELSE persistChanges(theme, completedDates, setItemThrows)
  /\ UNCHANGED <<theme, completedDates, initialLoadComplete, onLine>>
  /\ UNCHANGED <<contentVars, mergeVars, dayVars, bibleVars, searchVars>>

\* persistChanges, the catch: saveData rejected
persistRejected ==
  /\ syncStep = "rejected"
  /\ syncStatus' = "error"
  /\ syncStep' = "none"
  /\ UNCHANGED <<theme, completedDates, initialLoadComplete, onLine,
                 localStorage, saving, now, lastIssued>>
  /\ UNCHANGED <<contentVars, mergeVars, dayVars, bibleVars, searchVars>>

\* a completion that sets 'synced' without looking at navigator.onLine
persistResolved_IgnoresConnectivity ==
  /\ syncStep = "none"
  /\ saving # << >>
  /\ saving' = Tail(saving)
  /\ syncStatus' = "synced"
  /\ UNCHANGED <<theme, completedDates, initialLoadComplete, onLine,
                 localStorage, syncStep, now, lastIssued>>
  /\ UNCHANGED <<contentVars, mergeVars, dayVars, bibleVars, searchVars>>

\* persistChanges after the await: the timer of mockCloudRequest fired
persistResolved ==
  /\ syncStep = "none"
  /\ saving # << >>
  /\ saving' = Tail(saving)
  /\ syncStatus' = IF onLine THEN "synced" ELSE syncStatus
  /\ UNCHANGED <<theme, completedDates, initialLoadComplete, onLine,
                 localStorage, syncStep, now, lastIssued>>
  /\ UNCHANGED <<contentVars, mergeVars, dayVars, bibleVars, searchVars>>

handleOnline ==
  /\ syncStep = "none"
  /\ ~onLine
  /\ onLine' = TRUE
  /\ syncStatus' = "synced"
  /\ UNCHANGED <<theme, completedDates, initialLoadComplete, localStorage,
                 saving, syncStep, now, lastIssued>>
  /\ UNCHANGED <<contentVars, mergeVars, dayVars, bibleVars, searchVars>>

\* a connectivity-lost handler that leaves 'error' in place
handleOffline_KeepsError ==
  /\ syncStep = "none"
  /\ onLine
  /\ onLine' = FALSE
  /\ syncStatus' = IF syncStatus = "error" THEN "error" ELSE "offline"
  /\ UNCHANGED <<theme, completedDates, initialLoadComplete, localStorage,
                 saving, syncStep, now, lastIssued>>
  /\ UNCHANGED <<contentVars, mergeVars, dayVars, bibleVars, searchVars>>

handleOffline ==
  /\ syncStep = "none"
  /\ onLine
  /\ onLine' = FALSE
  /\ syncStatus' = "offline"
  /\ UNCHANGED <<theme, completedDates, initialLoadComplete, localStorage,
                 saving, syncStep, now, lastIssued>>
  /\ UNCHANGED <<contentVars, mergeVars, dayVars, bibleVars, searchVars>>

handleThemeChange(newTheme) ==
  /\ syncStep = "none"
  /\ effectPending = "none"
  /\ now < MaxSaves
  /\ theme' = newTheme
  /\ syncStep' = IF newTheme # theme THEN "effect" ELSE "none"
  /\ UNCHANGED <<completedDates, syncStatus, initialLoadComplete, onLine,
                 localStorage, saving, now, lastIssued>>
  /\ UNCHANGED <<contentVars, mergeVars, dayVars, bibleVars, searchVars>>

\* the Mark Complete button is rendered and enabled
MarkCompleteEnabled == SectionsRendered /\ ~isLoading(loadingState)

\* a toggle that adds the key whether or not it is there
newCompleted_AlwaysAdds(completed, key) == Append(completed, key)

\* toggleComplete: the array given to setCompletedDates
newCompleted(completed, key) ==
  IF \E i \in DOMAIN completed : completed[i] = key
    THEN SelectSeq(completed, LAMBDA d : d # key)
    ELSE Append(completed, key)

toggleComplete ==
  /\ syncStep = "none"
  /\ effectPending = "none"
  /\ MarkCompleteEnabled
  /\ now < MaxSaves
  /\ completedDates' = newCompleted(completedDates, toDateString(currentDate))
  /\ syncStep' = "effect"
  /\ UNCHANGED <<theme, syncStatus, initialLoadComplete, onLine, localStorage,
                 saving, now, lastIssued>>
  /\ UNCHANGED <<contentVars, mergeVars, dayVars, bibleVars, searchVars>>

\* ------------------------------------------------------------ mergeProfiles
\* Array.from(new Set(a)): the first occurrence of each element, in order
RECURSIVE ArrayFromSet(_)
ArrayFromSet(a) ==
  IF a = << >> THEN << >>
  ELSE LET init == ArrayFromSet(SubSeq(a, 1, Len(a) - 1))
           last == a[Len(a)]
       IN  IF \E i \in DOMAIN init : init[i] = last
             THEN init
             ELSE Append(init, last)

\* a merge that keeps the local completed dates only
mergeProfiles_LocalDates(l, c, t) ==
  LET mergedDates == ArrayFromSet(l.progress.completedDates)
      useCloudSettings == c.lastSyncedAt > l.lastSyncedAt
  IN  Profile(IF useCloudSettings THEN c.preferences.theme
                                  ELSE l.preferences.theme,
              mergedDates, t)

\* a merge that takes the cloud theme on equal timestamps too
mergeProfiles_TieToCloud(l, c, t) ==
  LET mergedDates == ArrayFromSet(l.progress.completedDates
                                    \o c.progress.completedDates)
      useCloudSettings == c.lastSyncedAt >= l.lastSyncedAt
  IN  Profile(IF useCloudSettings THEN c.preferences.theme
                                  ELSE l.preferences.theme,
              mergedDates, t)

mergeProfiles(l, c, t) ==
  LET mergedDates == ArrayFromSet(l.progress.completedDates
                                    \o c.progress.completedDates)
      useCloudSettings == c.lastSyncedAt > l.lastSyncedAt
  IN  Profile(IF useCloudSettings THEN c.preferences.theme
                                  ELSE l.preferences.theme,
              mergedDates, t)

\* the profiles mergeProfiles is applied to
MergeInputs ==
  {Profile(t, a, at) : t \in Themes, a \in KeyArrays, at \in 0..MaxStamp}

callMergeProfiles ==
  /\ merged = Null
  /\ merged' = mergeProfiles(local, cloud, now)
  /\ UNCHANGED <<local, cloud>>
  /\ UNCHANGED <<contentVars, profileVars, searchVars, dayVars, bibleVars>>

\* ------------------------------------------------------------ specifications
Next ==
  \/ \E date \in Dates : handleDateSelect(date)
  \/ loadContentEffect
  \/ \E date \in Dates, resp \in Responses : loadContentResolved(date, resp)
  \/ \E date \in Dates, resp \in Responses : loadContentFailed(date, resp)
  \/ \E section \in EditedSections : startEditing(section)
  \/ cancelEdit
  \/ \E tempText \in EditTexts : saveEdit(tempText)

Spec == Init /\ [][Next]_vars

\* the same program in front of a service that does not honour responseSchema
NextUnchecked ==
  \/ \E date \in Dates : handleDateSelect(date)
  \/ loadContentEffect
  \/ \E date \in Dates, resp \in UncheckedResponses : loadContentResolved(date, resp)
  \/ \E date \in Dates, resp \in UncheckedResponses : loadContentFailed(date, resp)
  \/ \E section \in EditedSections : startEditing(section)
  \/ cancelEdit
  \/ \E tempText \in EditTexts : saveEdit(tempText)

SpecUnchecked == Init /\ [][NextUnchecked]_vars

\* the profile part of App, with the content of the date selected at mount
InitSync ==
  /\ ContentAtMount
  /\ \E ol \in BOOLEAN, storage \in Storages : ProfileAtMount(ol, storage, 0)
  /\ MergeIdle
  /\ SearchAtMount
  /\ DayIdle
  /\ BibleAtMount

NextSync ==
  \/ loadContentEffect
  \/ \E date \in Dates, resp \in Responses : loadContentResolved(date, resp)
  \/ \E date \in Dates, resp \in Responses : loadContentFailed(date, resp)
  \/ \E getItemThrows \in BOOLEAN : initApp(getItemThrows)
  \/ \E setItemThrows \in BOOLEAN : autoSyncEffect(setItemThrows)
  \/ persistRejected
  \/ persistResolved
  \/ handleOnline
  \/ handleOffline
  \/ \E newTheme \in Themes : handleThemeChange(newTheme)
  \/ toggleComplete

SpecSync == InitSync /\ [][NextSync]_vars

\* mergeProfiles applied to every pair of profiles, at a time not earlier
\* than their lastSyncedAt
InitMerge ==
  /\ ContentAtMount
  /\ ProfileAtMount(TRUE, << >>, MaxStamp)
  /\ local \in MergeInputs
  /\ cloud \in MergeInputs
  /\ merged = Null
  /\ SearchAtMount
  /\ DayIdle
  /\ BibleAtMount

NextMerge == callMergeProfiles

SpecMerge == InitMerge /\ [][NextMerge]_vars

\* the search applied to caches given with the order of their keys, in a
\* session whose first fetch and first save are done
ProfileSettled ==
  /\ theme = "light"
  /\ completedDates = << >>
  /\ syncStatus = "synced"
  /\ initialLoadComplete = TRUE
  /\ onLine = TRUE
  /\ localStorage = saveData(<< >>, defaultProfile, 1)
  /\ saving = << >>
  /\ syncStep = "none"
  /\ now = 1
  /\ lastIssued = "succeeded"

\* a record of `date` whose field f reads "Grace" and whose other fields
\* read "Amen"
SearchRecord(date, f) ==
  [g \in {"date"} \cup RequiredFields |->
     IF g = "date" THEN formatDateFull(date)
     ELSE IF g = f THEN "Grace" ELSE "Amen"]

\* what the key of a date holds: a record of that date or, as after an edit
\* saved under a newly selected key, a record of January 1
EntryChoices == {[stale |-> b, field |-> f] : b \in BOOLEAN, f \in RequiredFields}

CacheOf(S, g) ==
  [k \in {toDateString(date) : date \in S} |->
     LET date == CHOOSE d \in S : toDateString(d) = k
     IN  SearchRecord(IF g[date].stale THEN MkDate(2026, 0, 1) ELSE date,
                      g[date].field)]

SearchCaches ==
  UNION {{CacheOf(S, g) : g \in [S -> EntryChoices]} :
           S \in {T \in SUBSET Dates : MkDate(2026, 0, 1) \in T}}

KeyOrders(c) ==
  {o \in [1..Cardinality(DOMAIN c) -> DOMAIN c] :
     \A i, j \in DOMAIN o : o[i] = o[j] => i = j}

InitSearch ==
  /\ currentDate = MkDate(2026, 0, 1)
  /\ cache \in SearchCaches
  /\ cacheOrder \in KeyOrders(cache)
  /\ content = cache[toDateString(currentDate)]
  /\ loadingState = "SUCCESS"
  /\ pending = [d \in Dates |-> 0]
  /\ effectPending = "none"
  /\ editingSection = NoSection
  /\ failedSince = {}
  /\ selects = 0
  /\ ProfileSettled
  /\ MergeIdle
  /\ SearchAtMount
  /\ DayIdle
  /\ BibleAtMount

NextSearch ==
  \/ toggleSearchMode
  \/ \E query \in SearchQueries : handleSearchChange(query)

SpecSearch == InitSearch /\ [][NextSearch]_vars

\* isSameDay and the key of a date, applied to any two dates of the bounded
\* calendar at any time of day
InitDay ==
  /\ ContentAtMount
  /\ ProfileAtMount(TRUE, << >>, 0)
  /\ MergeIdle
  /\ SearchAtMount
  /\ d1 \in DateTimes
  /\ d2 \in DateTimes
  /\ compared = Null
  /\ BibleAtMount

NextDay == compareDays

SpecDay == InitDay /\ [][NextDay]_vars

\* the devotional of the first date, loaded and edited, with the scripture
\* lookups of DevotionalDisplay
NextLookup ==
  \/ \E section \in EditedSections : startEditing(section)
  \/ \E tempText \in EditTexts : saveEdit(tempText)
  \/ loadContentEffect
  \/ \E date \in Dates, resp \in Responses : loadContentResolved(date, resp)
  \/ \E date \in Dates, resp \in Responses : loadContentFailed(date, resp)
  \/ handleFetchPassage
  \/ \E reference \in References, response \in BibleResponses :
       handleFetchPassageResolved(reference, response)
  \/ \E reference \in References, response \in BibleResponses :
       relatedTextResolved(reference, response)

SpecLookup == Init /\ [][NextLookup]_vars

\* The content part when every fetch is answered with a conforming payload
\* and the user selects a bounded number of dates.  React runs the passive
\* effect after the commit that changed its dependencies: once pending it
\* stays enabled until it runs, so it is weakly fair.  The continuation of
\* loadContent runs once its fetch has resolved; it only waits for a
\* pending effect, which no event of the user can prolong, so it is
\* strongly fair.  The user's actions are not fair.
NextLive ==
  \/ \E date \in Dates : handleDateSelect(date)
  \/ loadContentEffect
  \/ \E date \in Dates, resp \in Responses : loadContentResolved(date, resp)
  \/ \E section \in EditedSections : startEditing(section)
  \/ cancelEdit
  \/ \E tempText \in EditTexts : saveEdit(tempText)

Fairness ==
  /\ WF_vars(loadContentEffect)
  /\ \A date \in Dates :
       SF_vars(\E resp \in Responses : loadContentResolved(date, resp))

SpecLive == Init /\ [][NextLive]_vars /\ Fairness

\* the answer of a service that gives each date a devotional of its own
DatedResponse(date) == [rejected |-> FALSE, text |-> JsonText(date.date)]

\* Dates are selected and loaded, each with a devotional of its own, and the
\* scriptures of the displayed devotional are looked up.
NextDated ==
  \/ \E date \in Dates : handleDateSelect(date)
  \/ loadContentEffect
  \/ \E date \in Dates : loadContentResolved(date, DatedResponse(date))
  \/ handleFetchPassage
  \/ \E reference \in References, response \in BibleResponses :
       handleFetchPassageResolved(reference, response)
  \/ \E reference \in References, response \in BibleResponses :
       relatedTextResolved(reference, response)

SpecDated == Init /\ [][NextDated]_vars

TypeOK ==
  /\ currentDate \in Dates
  /\ loadingState \in LoadingState
  /\ effectPending \in {"none", "currentDate", "loadContent"}
  /\ editingSection \in Sections \cup {NoSection}
  /\ theme \in Themes
  /\ syncStatus \in SyncStatus
  /\ initialLoadComplete \in BOOLEAN
  /\ onLine \in BOOLEAN
  /\ syncStep \in {"none", "effect", "initApp", "rejected"}
  /\ lastIssued \in {"none", "succeeded", "failed"}
  /\ now \in 0..MaxSaves

\* ================================================================ claims
SelectedKey == toDateString(currentDate)

\* the record fetchDevotionalForDate returns for a date and a conforming answer
FetchedRecord(date, v) == Spread([date |-> formatDateFull(date)], AiObject(v))

\* the responses the fetch boundary fails on: rejection, empty text, text
\* that is not JSON
FailingResponses ==
  {resp \in Responses : resp.rejected \/ resp.text = "" \/ resp.text = "<html>"}

\* C1: a fetch that resolves for a date that is no longer the selected one
\* changes neither the displayed content nor the cache entry of the selected
\* date.
C1_StaleResponseDiscarded ==
  [][\A date \in Dates, resp \in Responses :
       (loadContentResolved(date, resp) /\ toDateString(date) # SelectedKey)
         => /\ content' = content
            /\ cacheGet(cache', SelectedKey) = cacheGet(cache, SelectedKey)]_vars

\* C2: at no time are two fetches in flight for the same date key.
C2_OneFetchInFlightPerKey == \A date \in Dates : pending[date] <= 1

\* C3: selecting a date whose key is in the cache starts no fetch and does
\* not enter LOADING; the effect that follows sets SUCCESS and displays the
\* cached record.
C3_CachedSelectShortCircuits ==
  [][/\ \A date \in Dates :
          (handleDateSelect(date) /\ toDateString(date) \in DOMAIN cache)
            => (pending' = pending /\ loadingState' = loadingState)
     /\ (loadContentEffect /\ effectPending = "currentDate"
           /\ SelectedKey \in DOMAIN cache)
          => /\ loadingState' = "SUCCESS"
             /\ content' = cache[SelectedKey]
             /\ pending' = pending]_vars

\* a cached date has just been selected: the effect that short-circuits is
\* the only step that can follow
C3_Witness ==
  /\ effectPending = "currentDate"
  /\ selects > 0
  /\ CacheHit(cache, SelectedKey)

\* C4: whenever the loading state is SUCCESS the displayed content is the
\* cache entry of the selected date.
C4_DisplayedEqualsCache ==
  loadingState = "SUCCESS" => content = cacheGet(cache, SelectedKey)

\* C5: a fetch completion never changes a cache entry that already exists.
C5_FetchNeverOverwrites ==
  [][\A date \in Dates, resp \in Responses :
       loadContentResolved(date, resp)
         => \A k \in DOMAIN cache : cacheGet(cache', k) = cache[k]]_vars

\* C6: a fetch that rejects, answers with an empty text or with a text that
\* does not parse sets ERROR and leaves the cache as it was.
C6_FailureLeavesCache ==
  [][\A date \in Dates, resp \in FailingResponses :
       (loadContentResolved(date, resp) \/ loadContentFailed(date, resp))
         => (loadingState' = "ERROR" /\ cache' = cache)]_vars

\* ERROR is set by a failed fetch only, and left by the next effect or
\* completion
C6_Witness ==
  /\ loadingState = "ERROR"
  /\ failedSince # {}
  /\ cache # << >>

\* C7: no fetch is issued for a date whose fetch failed, unless the user
\* selected that date again since the failure.
C7_NoAutomaticRetry ==
  [][\A date \in failedSince : pending'[date] <= pending[date]]_vars

\* C8: selecting a date that is not cached sets LOADING and starts its fetch;
\* when the fetch of the selected date resolves with a conforming answer the
\* state is SUCCESS and the fetched record is the cache entry of the selected
\* date and the displayed content.
C8_MissLoadsThenSucceeds ==
  [][/\ (loadContentEffect /\ effectPending = "currentDate"
           /\ SelectedKey \notin DOMAIN cache)
          => /\ loadingState' = "LOADING"
             /\ pending'[currentDate] = pending[currentDate] + 1
     /\ \A v \in Variants :
          (/\ loadingState = "LOADING"
           /\ pending[currentDate] > 0
           /\ \/ loadContentResolved(currentDate,
                                     [rejected |-> FALSE, text |-> JsonText(v)])
              \/ loadContentFailed(currentDate,
                                   [rejected |-> FALSE, text |-> JsonText(v)]))
            => /\ loadingState' = "SUCCESS"
               /\ cacheGet(cache', SelectedKey) = FetchedRecord(currentDate, v)
               /\ content' = FetchedRecord(currentDate, v)]_vars

\* the commit of the selected date's completion: the cache changed (the
\* effect is pending) and the entry is a record as fetched
C8_Witness ==
  /\ effectPending = "loadContent"
  /\ loadingState = "SUCCESS"
  /\ \E v \in Variants :
       /\ cacheGet(cache, SelectedKey) = FetchedRecord(currentDate, v)
       /\ content = FetchedRecord(currentDate, v)

\* C9: a fetch that resolves for a date that is no longer selected is stored
\* under the key of the date it was issued for, and no other key changes.
C9_StaleResultUnderOwnKey ==
  [][\A date \in Dates, v \in Variants :
       (/\ loadContentResolved(date, [rejected |-> FALSE, text |-> JsonText(v)])
        /\ date # currentDate)
         => /\ cacheGet(cache', toDateString(date)) = FetchedRecord(date, v)
            /\ \A k \in (DOMAIN cache \cup DOMAIN cache') \ {toDateString(date)} :
                 cacheGet(cache', k) = cacheGet(cache, k)]_vars

\* the commit of a completion for a date other than the selected one
C9_Witness ==
  /\ effectPending = "loadContent"
  /\ \E date \in Dates \ {currentDate} :
       /\ CacheHit(cache, toDateString(date))
       /\ \E v \in Variants : cache[toDateString(date)] = FetchedRecord(date, v)
       /\ content = cache[toDateString(date)]

\* C10: saving an edit of a section while the selected date is cached changes
\* only that section's field of the selected date's cache entry.
C10_UpdateChangesOneField ==
  [][\A tempText \in EditTexts :
       (saveEdit(tempText) /\ SelectedKey \in DOMAIN cache)
         => LET X == SectionField(editingSection)
                before == cache[SelectedKey]
                after == cacheGet(cache', SelectedKey)
            IN  /\ DOMAIN cache' = DOMAIN cache
                /\ DOMAIN after = DOMAIN before \cup {X}
                /\ after[X] = tempText
                /\ \A f \in DOMAIN before \ {X} : after[f] = before[f]
                /\ \A k \in DOMAIN cache \ {SelectedKey} : cache'[k] = cache[k]]_vars

\* the commit of a saved edit of the selected date's own record
C10_Witness ==
  /\ effectPending = "loadContent"
  /\ CacheHit(cache, SelectedKey)
  /\ content = cache[SelectedKey]
  /\ content.date = formatDateFull(currentDate)
  /\ \E section \in Sections :
       /\ SectionField(section) \in DOMAIN content
       /\ content[SectionField(section)] \in EditTexts

\* C11: saving an edit while the key of the selected date is absent from the
\* cache fails: the cache is left as it was, and in particular no entry is
\* created under the selected key.
C11_UpdateOfAbsentKeyFails ==
  [][\A tempText \in EditTexts :
       (saveEdit(tempText) /\ SelectedKey \notin DOMAIN cache)
         => (cache' = cache /\ SelectedKey \notin DOMAIN cache')]_vars

\* C12: the fetch boundary never yields a partial record: every record in
\* the cache has all nine required fields, also when the service answers
\* with a payload that lacks one of them.
C12_NoPartialRecord ==
  \A k \in DOMAIN cache : RequiredFields \subseteq DOMAIN cache[k]

\* the text stored under STORAGE_KEY is the JSON of a profile with this
\* theme and these completed dates
StoredIs(storage, t, dates) ==
  /\ STORAGE_KEY \in DOMAIN storage
  /\ LET parsed == JSONParseProfile(storage[STORAGE_KEY])
     IN  /\ ~parsed.threw
         /\ DOMAIN parsed.value = {"preferences", "progress", "lastSyncedAt"}
         /\ parsed.value.preferences.theme = t
         /\ parsed.value.progress.completedDates = dates

\* the elements of an array
Elements(a) == {a[i] : i \in DOMAIN a}

\* C13 (as stated): a save issued while connectivity is present sets
\* 'syncing'; when that save completes the status is 'synced' if it
\* succeeded and 'error' if it failed.
C13_OnlineSaveEndsSyncedOrError ==
  [][/\ \A setItemThrows \in BOOLEAN :
          (autoSyncEffect(setItemThrows) /\ initialLoadComplete /\ onLine)
            => syncStatus' = "syncing"
     /\ (persistResolved /\ Head(saving).onLine) => syncStatus' = "synced"
     /\ (persistRejected /\ onLine) => syncStatus' = "error"]_vars

\* C13 (amended): a save issued while connectivity is present sets
\* 'syncing'; when that save completes successfully the status becomes
\* 'synced' if connectivity is present at that moment and is left as it is
\* otherwise; when the save fails the status becomes 'error'.
C13_OnlineSaveEndsSyncedIfStillOnline ==
  [][/\ \A setItemThrows \in BOOLEAN :
          (autoSyncEffect(setItemThrows) /\ initialLoadComplete /\ onLine)
            => syncStatus' = "syncing"
     /\ (persistResolved /\ Head(saving).onLine)
          => syncStatus' = IF onLine THEN "synced" ELSE syncStatus
     /\ (persistRejected /\ onLine) => syncStatus' = "error"]_vars

\* a mutation made while online has set 'syncing' and its save is in flight
C13_Witness ==
  /\ syncStatus = "syncing"
  /\ now > 1
  /\ saving # << >>
  /\ saving[Len(saving)].onLine

\* C14: a save issued while connectivity is absent writes the profile to
\* the local storage and sets 'offline', and while that save is pending the
\* status does not become 'synced' (a connectivity-restored event counts
\* only at a moment when no save is pending).
C14_OfflineSaveNotSyncedWhilePending ==
  [][/\ (autoSyncEffect(FALSE) /\ initialLoadComplete /\ ~onLine)
          => /\ syncStatus' = "offline"
             /\ StoredIs(localStorage', theme, completedDates)
     /\ ((\E i \in DOMAIN saving : ~saving[i].onLine) /\ syncStatus # "synced")
          => syncStatus' # "synced"]_vars

\* C15: a connectivity-lost event sets 'offline' whatever the status was,
\* also while a save is in flight.
C15_OfflineEventSetsOffline ==
  [][handleOffline => (syncStatus' = "offline" /\ saving' = saving)]_vars

\* connectivity was lost while a save issued online was in flight
C15_Witness ==
  /\ syncStatus = "offline"
  /\ ~onLine
  /\ \E i \in DOMAIN saving : saving[i].onLine

\* C16: a connectivity-restored event that finds the status 'error' does
\* not change it to 'synced'.
C16_OnlineEventKeepsError ==
  [][(handleOnline /\ syncStatus = "error") => syncStatus' # "synced"]_vars

\* C17: whenever connectivity is present and no save is in flight, the
\* status is 'synced' if the most recently issued save succeeded and
\* 'error' if it failed.
C17_StatusOfLatestSave ==
  (onLine /\ saving = << >> /\ syncStep = "none" /\ lastIssued # "none")
    => syncStatus = IF lastIssued = "succeeded" THEN "synced" ELSE "error"

\* C18: after the initial load every change of theme or completedDates is
\* followed, before anything else happens to the profile, by a save; unless
\* the storage refuses the write, the text it stores is the JSON of the new
\* theme and completed dates, whatever the status and the connectivity.
C18_MutationSavedLocally ==
  [][/\ (initialLoadComplete
           /\ (theme' # theme \/ completedDates' # completedDates))
          => syncStep' = "effect"
     /\ (initialLoadComplete /\ syncStep = "effect" /\ profileVars' # profileVars)
          => /\ now' = now + 1
             /\ UNCHANGED <<theme, completedDates>>
             /\ lastIssued' \in {"succeeded", "failed"}
             /\ lastIssued' = "succeeded"
                  => StoredIs(localStorage', theme, completedDates)]_vars

\* a mutation was saved while connectivity was absent
C18_Witness ==
  /\ now > 1
  /\ ~onLine
  /\ syncStatus = "offline"
  /\ saving # << >>
  /\ ~saving[Len(saving)].onLine
  /\ StoredIs(localStorage, theme, completedDates)
  /\ localStorage[STORAGE_KEY] = JSONStringify(Profile(theme, completedDates, now))

\* C19: when the stored profile is missing, unreadable or not the JSON of a
\* profile, the session starts with the default profile and the status does
\* not become 'error'.
C19_LoadFailsSoft ==
  [][\A getItemThrows \in BOOLEAN :
       (/\ initApp(getItemThrows)
        /\ \/ getItemThrows
           \/ STORAGE_KEY \notin DOMAIN localStorage
           \/ \A p \in StoredProfiles :
                localStorage[STORAGE_KEY] # JSONStringify(p))
         => /\ theme' = defaultProfile.preferences.theme
            /\ completedDates' = defaultProfile.progress.completedDates
            /\ syncStatus' # "error"]_vars

\* C20: the completed dates of mergeProfiles(local, cloud) are the dates of
\* local and of cloud and no other, each once, so that they are never fewer
\* than the dates of local or of cloud.
C20_MergeIsUnion ==
  merged # Null
    => LET L == local.progress.completedDates
           C == cloud.progress.completedDates
           M == merged.progress.completedDates
       IN  /\ Elements(M) = Elements(L) \cup Elements(C)
           /\ Len(M) = Cardinality(Elements(M))
           /\ Len(M) >= Cardinality(Elements(L))
           /\ Len(M) >= Cardinality(Elements(C))
           /\ L \in KeyLists => Len(M) >= Len(L)
           /\ C \in KeyLists => Len(M) >= Len(C)

\* each of the two profiles has a completed date the other one lacks
C20_Witness ==
  /\ merged # Null
  /\ Elements(local.progress.completedDates)
       \ Elements(cloud.progress.completedDates) # {}
  /\ Elements(cloud.progress.completedDates)
       \ Elements(local.progress.completedDates) # {}
  /\ Len(merged.progress.completedDates) > Len(local.progress.completedDates)

\* C21: the theme of mergeProfiles(local, cloud) is cloud's theme exactly
\* when cloud.lastSyncedAt is strictly greater than local.lastSyncedAt, and
\* local's theme otherwise, equal timestamps included.
C21_MergeThemeOfNewer ==
  merged # Null
    => /\ cloud.lastSyncedAt > local.lastSyncedAt
            => merged.preferences.theme = cloud.preferences.theme
       /\ cloud.lastSyncedAt <= local.lastSyncedAt
            => merged.preferences.theme = local.preferences.theme

\* a merge of two profiles with equal timestamps and different themes
C21_Witness ==
  /\ merged # Null
  /\ cloud.lastSyncedAt = local.lastSyncedAt
  /\ cloud.preferences.theme # local.preferences.theme
  /\ merged.preferences.theme = local.preferences.theme

\* the fields the search looks at
SearchedFields == {"passageReference", "scriptureText", "reflection",
                   "morningPrayer", "eveningPrayer", "relatedVerseReference",
                   "relatedVerseText"}

\* the query is blank: nothing but white space
IsBlank(query) == \A i \in DOMAIN CodeUnits(query) : CodeUnits(query)[i] \in WhiteSpace

\* two code units are the same letter, whatever their case
SameLetter(a, b) ==
  \/ a = b
  \/ \E n \in DOMAIN UpperCase :
       {a, b} = {UpperCase[n], LowerCase[n]}

\* the query occurs in the text, case ignored
OccursIn(query, text) ==
  LET q == CodeUnits(query)
      t == CodeUnits(text)
  IN  \E offset \in 0..Len(t) :
        /\ offset + Len(q) <= Len(t)
        /\ \A i \in DOMAIN q : SameLetter(q[i], t[offset + i])

\* the keys of the cache entries the query matches
MatchingKeys(query) ==
  {k \in DOMAIN cache :
     \E f \in SearchedFields : f \in DOMAIN cache[k] /\ OccursIn(query, cache[k][f])}

\* the calendar day a record's date field denotes, as a day of 2026
DayOfRecord(item) ==
  LET date == CHOOSE d \in Dates : formatDateFull(d) = item.date
  IN  DaysBeforeMonth[date.month + 1] + date.date

\* C22: with an empty or white-space-only query the search result is the
\* empty sequence, whatever the cache holds.
C22_BlankQueryFindsNothing ==
  IsBlank(searchQuery) => searchResults = << >>

\* a white-space query was typed over a cache that is not empty
C22_Witness ==
  /\ isSearchMode
  /\ searchQuery = " "
  /\ cache # << >>
  /\ searchResults = << >>

\* C23: with a non-blank query the search result holds exactly the cache
\* entries in which the query occurs, case ignored, in one of the seven
\* searched fields: every such entry once, and nothing else.
C23_ResultIsTheMatchingEntries ==
  ~IsBlank(searchQuery)
    => /\ Elements(searchResults) = {cache[k] : k \in MatchingKeys(searchQuery)}
       /\ Len(searchResults) = Cardinality(MatchingKeys(searchQuery))

\* an upper-case query found one of two cached entries: the other one has
\* "Grace" in a field that is not searched
C23_Witness ==
  /\ searchQuery = "GRACE"
  /\ Len(searchResults) = 1
  /\ Cardinality(DOMAIN cache) = 2
  /\ \E k \in DOMAIN cache : cache[k].quote = "Grace"

\* C24: the search results are in ascending order of the calendar day of
\* their date field.
C24_ResultsAscendingByDate ==
  \A i, j \in DOMAIN searchResults :
    i < j => DayOfRecord(searchResults[i]) <= DayOfRecord(searchResults[j])

\* two results whose keys were inserted in the order opposite to that of
\* their dates
C24_Witness ==
  /\ Len(searchResults) = 2
  /\ Len(cacheOrder) = 2
  /\ DayOfRecord(cache[cacheOrder[1]]) > DayOfRecord(cache[cacheOrder[2]])
  /\ DayOfRecord(searchResults[1]) < DayOfRecord(searchResults[2])

\* C25: one toggle changes the membership of the selected date's key in
\* completedDates and of no other key; a second toggle of the same key gives
\* back the set the first one started from, whether the key was in it or not.
C25_ToggleTwiceRestores ==
  [][toggleComplete
       => LET key == SelectedKey
              once == completedDates'
              twice == newCompleted(once, key)
          IN  /\ (key \in Elements(once)) # (key \in Elements(completedDates))
              /\ Elements(once) \ {key} = Elements(completedDates) \ {key}
              /\ Elements(twice) = Elements(completedDates)
              /\ \A k \in DateKeys :
                   Elements(newCompleted(newCompleted(completedDates, k), k))
                     = Elements(completedDates)]_vars

\* the selected date was completed again after its completion had been
\* removed and saved
C25_Witness ==
  /\ initialLoadComplete
  /\ syncStep = "effect"
  /\ now = 2
  /\ StoredIs(localStorage, theme, << >>)
  /\ completedDates = <<SelectedKey>>

\* the calendar day of a date in local time: the year and the day of the year
LocalDay(date) == <<date.year, DaysBeforeMonth[date.month + 1] + date.date>>

\* C26: two dates have the same key (toDateString) exactly when they fall on
\* the same calendar day in local time, whatever their times of day, and the
\* equality of keys agrees with isSameDay.
C26_SameKeyIffSameDay ==
  compared # Null
    => /\ compared.sameKey <=> (LocalDay(d1) = LocalDay(d2))
       /\ compared.sameKey <=> compared.isSameDay

\* two dates of one calendar day at different times of day were compared
C26_Witness ==
  /\ compared # Null
  /\ compared.sameKey
  /\ d1.hours # d2.hours

\* the responses fetchBibleText takes for a failure: the fetch rejected, the
\* response is not OK, its body is not JSON, or the body has no text
FailingBibleResponses ==
  {r \in BibleResponses :
     \/ r.rejected
     \/ ~r.ok
     \/ r.json.threw
     \/ "text" \notin DOMAIN r.json.value
     \/ r.json.value.text = ""}

\* C27: a scripture lookup that fails (network error, response not OK,
\* response without text) yields no text: the text it was to set becomes
\* absent, and loadingState, cache and content stay as they are.
C27_FailedLookupYieldsAbsence ==
  [][\A reference \in References, response \in FailingBibleResponses :
       /\ handleFetchPassageResolved(reference, response)
            => /\ fullPassageText' = NoText
               /\ ~isBibleLoading'
               /\ UNCHANGED <<loadingState, cache, content>>
       /\ relatedTextResolved(reference, response)
            => /\ fetchedRelatedText' = NoText
               /\ UNCHANGED <<loadingState, cache, content>>]_vars

\* the lookup of the displayed passage has resolved and left no text, with
\* the devotional displayed
C27_Witness ==
  /\ lookedUp.passage # NoText
  /\ fullPassageText = NoText
  /\ loadingState = "SUCCESS"
  /\ content # Null
  /\ content = cacheGet(cache, toDateString(currentDate))

\* no call of fetchDevotionalForDate is awaited
NoFetchInFlight == \A date \in Dates : pending[date] = 0

\* C28: the loading state is that of the selected date: a fetch that fails
\* for a date that is no longer selected does not set ERROR while the
\* selected date is loading or is cached and displayed, and with no fetch in
\* flight (and the load effect done) a selected date whose key is cached has
\* the state SUCCESS.
SettledOnCachedDate ==
  NoFetchInFlight /\ effectPending = "none" /\ CacheHit(cache, SelectedKey)

C28_LoadingStateOfSelectionOnly ==
  [][/\ \A date \in Dates, resp \in Responses :
          (/\ loadContentFailed(date, resp)
           /\ date # currentDate
           /\ \/ pending[currentDate] > 0
              \/ CacheHit(cache, SelectedKey) /\ content = cacheGet(cache, SelectedKey))
            => loadingState' # "ERROR"
     /\ SettledOnCachedDate' => loadingState' = "SUCCESS"]_vars

\* C29: when the user stops selecting dates and every fetch resolves with a
\* conforming payload, from some point on the loading state is SUCCESS, the
\* displayed content is the cache entry of the selected date, and no fetch
\* is in flight.
C29_EventuallySettled ==
  <>[](/\ loadingState = "SUCCESS"
       /\ content # Null
       /\ content = cacheGet(cache, SelectedKey)
       /\ NoFetchInFlight)

\* the user has selected a date, every fetch has resolved, and the selected
\* date's cache entry is displayed
C29_Witness ==
  /\ selects > 0
  /\ NoFetchInFlight
  /\ effectPending = "none"
  /\ \A date \in Dates : CacheHit(cache, toDateString(date))
  /\ loadingState = "SUCCESS"
  /\ content = cacheGet(cache, SelectedKey)

\* C30: every cache entry is the record of its own key's date: the date
\* field of the entry under the key of a date is that date, formatted.
C30_EntryOfItsOwnDate ==
  \A date \in Dates :
    CacheHit(cache, toDateString(date))
      => cache[toDateString(date)].date = formatDateFull(date)

\* C31: in every reachable state the status is 'synced' only if connectivity
\* is present.
C31_SyncedOnlyIfOnline == syncStatus = "synced" => onLine

\* C31 (amended): once the initial profile load has completed the status is
\* 'synced' only if connectivity is present; in particular a save that
\* completes after a connectivity-lost event does not set 'synced' before a
\* connectivity-restored event.  (The first render of an application started
\* without connectivity has the initial status 'synced'.)
C31_SyncedOnlyIfOnlineAfterLoad ==
  initialLoadComplete => (syncStatus = "synced" => onLine)

\* connectivity is absent, every save issued so far has completed, and the
\* status is 'offline'
C31_Witness ==
  /\ initialLoadComplete
  /\ ~onLine
  /\ now > 1
  /\ saving = << >>
  /\ syncStep = "none"
  /\ lastIssued = "succeeded"
  /\ syncStatus = "offline"

\* the text stored under STORAGE_KEY is the JSON of the profile p
StoredProfileIs(storage, p) ==
  STORAGE_KEY \in DOMAIN storage /\ storage[STORAGE_KEY] = JSONStringify(p)

\* C32: no save is issued before the initial load has completed; a stored
\* profile that can be loaded becomes the theme and the completed dates of
\* the session with the completion of the load, and the first save, which
\* follows it before anything else, stores that theme and those dates: the
\* stored profile is not overwritten with the defaults.
C32_FirstSaveCarriesLoadedProfile ==
  [][/\ ~initialLoadComplete => UNCHANGED <<localStorage, saving, now, lastIssued>>
     /\ \A p \in StoredProfiles :
          (initApp(FALSE) /\ StoredProfileIs(localStorage, p))
            => /\ theme' = p.preferences.theme
               /\ completedDates' = p.progress.completedDates
               /\ initialLoadComplete'
               /\ syncStep' = "effect"
     /\ (initialLoadComplete /\ now = 0 /\ profileVars' # profileVars)
          => /\ \E setItemThrows \in BOOLEAN : autoSyncEffect(setItemThrows)
             /\ now' = 1
             /\ lastIssued' = "succeeded"
                  => StoredIs(localStorage', theme, completedDates)
             /\ lastIssued' # "succeeded" => localStorage' = localStorage]_vars

\* the profile an earlier session stored was loaded and the first save has
\* stored its theme and completed dates again
C32_Witness ==
  /\ initialLoadComplete
  /\ now = 1
  /\ lastIssued = "succeeded"
  /\ theme = EarlierProfile.preferences.theme
  /\ completedDates = EarlierProfile.progress.completedDates
  /\ StoredProfileIs(localStorage,
                     Profile(EarlierProfile.preferences.theme,
                             EarlierProfile.progress.completedDates, 1))

\* `custom || fetched`: the fetched text is the one shown
Shown(c, customField, fetched) ==
  /\ c # Null
  /\ customField \notin DOMAIN c \/ c[customField] = ""
  /\ fetched # NoText
  /\ fetched # Text("")

\* C33: the looked-up texts shown with a devotional are those of its own
\* references: a fetched related-verse text that is shown was looked up for
\* the related verse reference of the displayed content, and a fetched
\* passage text for its passage reference.
C33_LookedUpForDisplayedContent ==
  /\ Shown(content, "customRelatedVerseText", fetchedRelatedText)
       => lookedUp.related = Text(content.relatedVerseReference)
  /\ Shown(content, "customPassageText", fullPassageText)
       => lookedUp.passage = Text(content.passageReference)
====
